---- MODULE Spec2Model ----
(***************************************************************************)
(* The heap memory manager of src/HMM_Reduced/hmm_reduced.c, driven by a   *)
(* client like src/HMM_Random/hmm_rand.c.                                  *)
(*                                                                         *)
(* Memory is the static array `heap`, modelled word by word (8-byte words, *)
(* LP64): a BlockHeader at byte offset a occupies the words a (size),      *)
(* a+8 (next) and a+16 (free, an int in the low half of the word).  Two    *)
(* headers that overlap share words, exactly as in the program.            *)
(*                                                                         *)
(* A size_t value v is represented by the integer congruent to v modulo    *)
(* 2^64 that lies in TLC's integer range: a small non-negative integer is  *)
(* itself, and a negative integer -k stands for 2^64 - k.  Addition and    *)
(* subtraction modulo 2^64 are then plain integer addition and             *)
(* subtraction; only the unsigned comparisons need care (ULt).             *)
(***************************************************************************)
EXTENDS Integers, FiniteSets, Sequences, TLC

\* ------------------------------------------------------------- constants

HEAP_SIZE == 1024 * 1024

WORD == 8

HEADER_SIZE == 24

OFF_NEXT == 8

OFF_FREE == 16

MIN_CHUNK == 1024 * 16

ALIGN(x) == LET y == x + (WORD - 1) IN y - (y % WORD)

MIN_BLOCK_SIZE == HEADER_SIZE + ALIGN(WORD)

\* a < b as size_t (unsigned, modulo 2^64) on the representatives
ULt(a, b) == IF (a >= 0) = (b >= 0) THEN a < b ELSE b < 0

\* ----------------------------------------------------------------- bounds

\* number of HmmAlloc / HmmFree calls the client makes
MaxCalls == 6

\* number of calls in the longer run, and the sizes asked for in it: a small
\* block and a block that takes a whole 16 KiB chunk
MaxDeepCalls == 7

DeepSizes == {8, 16360}

\* number of calls of the client that asks for more than the arena holds
MaxWideCalls == 4

\* request sizes of a client that asks for at most the arena
ReqSizes == {0, 8, 16, 16328, 16360, 1048552, 1048553}

\* request sizes above the arena: just above HEAP_SIZE, and within a few
\* headers of the maximum size_t (-k stands for 2^64 - k)
WideSizes == {1048577, -40, -32, -8, -1}

\* ------------------------------------------------------------ word values

\* a word holding the number x (a size, or an int with a zero upper half)
Num(x) == [k |-> "n", v |-> x]

\* a word holding the address heap + o
Ptr(o) == [k |-> "p", v |-> o]

\* a word whose low half holds the int f and whose upper half is left over
\* from a pointer or a huge size
Low(f) == [k |-> "x", v |-> f]

\* the null pointer is the all-zero word
NULL == Num(0)

VARIABLES
    mem,            \* heap[]: written word offset -> word value (unwritten = 0)
    free_list,      \* static BlockHeader *free_list
    program_break,  \* static void *program_break, as a byte offset from heap
    allocations,    \* the client's live pointers: payload offset -> what was granted
    status,         \* "ok", or how the last call failed to return
    last,           \* the last call, its result and the state before it
    calls           \* number of calls made

vars == <<mem, free_list, program_break, allocations, status, last, calls>>

\* ----------------------------------------------------------- word access

NoMem == [a \in {} |-> Num(0)]

Rd(m, a) == IF a \in DOMAIN m THEN m[a] ELSE Num(0)

Wr(m, a, w) ==
    IF w = Num(0)
    THEN [x \in (DOMAIN m) \ {a} |-> m[x]]
    ELSE [x \in (DOMAIN m) \cup {a} |-> IF x = a THEN w ELSE m[x]]

\* storing an int into the low half of a word
WrLow(w, f) == IF w.k = "n" /\ w.v >= 0 THEN Num(f) ELSE Low(f)

\* p can be dereferenced as a BlockHeader inside heap[]
Valid(p) == p.k = "p" /\ p.v >= 0 /\ p.v + HEADER_SIZE <= HEAP_SIZE

\* the machine state a function works on
Machine(m, fl, brk, st) == [mem |-> m, fl |-> fl, brk |-> brk, st |-> st]

Undef(s) == [s EXCEPT !.st = "undef"]

Hung(s) == [s EXCEPT !.st = "hung"]

SetSize(s, b, x) == [s EXCEPT !.mem = Wr(s.mem, b, Num(x))]

SetNext(s, b, p) == [s EXCEPT !.mem = Wr(s.mem, b + OFF_NEXT, p)]

SetFree(s, b, f) ==
    [s EXCEPT !.mem = Wr(s.mem, b + OFF_FREE, WrLow(Rd(s.mem, b + OFF_FREE), f))]

GetSize(s, b) == Rd(s.mem, b)

GetNext(s, b) == Rd(s.mem, b + OFF_NEXT)

GetFree(s, b) == Rd(s.mem, b + OFF_FREE)

\* what find_free_block hands back: the state and the block (or NULL)
Res(s, b) == [s |-> s, block |-> b]

\* ------------------------------------------------------------ the program

add_to_free_list(s, b) == [SetNext(s, b, s.fl) EXCEPT !.fl = Ptr(b)]

split_block(s, b, size) ==
    LET bs == GetSize(s, b) IN
    IF bs.k # "n" THEN Undef(s)
    ELSE IF ULt(bs.v, size + HEADER_SIZE + WORD) THEN s
    ELSE LET nb == b + HEADER_SIZE + size IN
         IF ~Valid(Ptr(nb)) THEN Undef(s)
         ELSE LET s1 == SetSize(s, nb, bs.v - size - HEADER_SIZE)
                  s2 == SetFree(s1, nb, 1)
                  s3 == SetNext(s2, nb, GetNext(s2, b))
                  s4 == SetSize(s3, b, size)
                  s5 == SetNext(s4, b, Ptr(nb))
              IN  add_to_free_list(s5, nb)

\* the growth path of find_free_block.  The heap's own address is far above the
\* few bytes by which a wrapped chunk_size moves the sum, so the comparison of
\* the two addresses is the comparison of the offsets.
grow(s, size) ==
    LET chunk_size == IF ULt(size + HEADER_SIZE, MIN_CHUNK)
                      THEN MIN_CHUNK ELSE size + HEADER_SIZE IN
    IF s.brk + chunk_size > HEAP_SIZE THEN Res(s, NULL)
    ELSE IF ~Valid(Ptr(s.brk)) THEN Res(Undef(s), NULL)
    ELSE LET nb == s.brk
             s1 == SetSize(s, nb, chunk_size - HEADER_SIZE)
             s2 == SetFree(s1, nb, 0)
             s3 == SetNext(s2, nb, NULL)
             s4 == [s3 EXCEPT !.brk = s.brk + chunk_size]
         IN  IF ULt(size + MIN_BLOCK_SIZE, GetSize(s4, nb).v)
             THEN Res(split_block(s4, nb, size), Ptr(nb))
             ELSE Res(s4, Ptr(nb))

\* the first-fit scan of find_free_block.  The scan writes nothing before it
\* hits, so walking onto a block it has already visited never ends.
RECURSIVE scan(_, _, _, _, _)
scan(s, size, prev, current, seen) ==
    IF current = NULL THEN grow(s, size)
    ELSE IF ~Valid(current) THEN Res(Undef(s), NULL)
    ELSE IF current.v \in seen THEN Res(Hung(s), NULL)
    ELSE LET fr == GetFree(s, current.v)
             sz == GetSize(s, current.v) IN
         IF fr.k = "p" \/ (fr.v # 0 /\ sz.k # "n") THEN Res(Undef(s), NULL)
         ELSE IF fr.v # 0 /\ ~ULt(sz.v, size)
         THEN LET nx == GetNext(s, current.v)
                  s1 == IF prev # NULL THEN SetNext(s, prev.v, nx)
                                       ELSE [s EXCEPT !.fl = nx]
              IN  Res(split_block(s1, current.v, size), current)
         ELSE scan(s, size, current, GetNext(s, current.v), seen \cup {current.v})

find_free_block(s, size) == scan(s, size, NULL, s.fl, {})

\* iterations a pass of merge_free_blocks is followed for
MergeFuel == 64

\* the loop of merge_free_blocks.  Two cases never end: absorbing a block that
\* is its own successor (the iteration changes current->size only and repeats),
\* and advancing onto a block visited since the last absorption.
RECURSIVE merge_loop(_, _, _, _)
merge_loop(s, current, seen, fuel) ==
    IF fuel = 0 THEN [s EXCEPT !.st = "fuel"]
    ELSE IF current = NULL THEN s
    ELSE IF ~Valid(current) THEN Undef(s)
    ELSE LET nx == GetNext(s, current.v) IN
         IF nx = NULL THEN s
         ELSE IF ~Valid(nx) THEN Undef(s)
         ELSE LET cf == GetFree(s, current.v)
                  nf == GetFree(s, nx.v) IN
              IF cf.k = "p" \/ (cf.v # 0 /\ nf.k = "p") THEN Undef(s)
              ELSE IF cf.v # 0 /\ nf.v # 0
              THEN LET cs == GetSize(s, current.v)
                       ns == GetSize(s, nx.v) IN
                   IF cs.k # "n" \/ ns.k # "n" THEN Undef(s)
                   ELSE IF nx = current THEN Hung(s)
                   ELSE LET s1 == SetSize(s, current.v, cs.v + ns.v + HEADER_SIZE)
                            s2 == SetNext(s1, current.v, GetNext(s1, nx.v))
                        IN  merge_loop(s2, current, {}, fuel - 1)
              ELSE IF nx.v \in seen \cup {current.v} THEN Hung(s)
                   ELSE merge_loop(s, nx, seen \cup {current.v}, fuel - 1)

\* a merge pass that steps to the next block after absorbing one, instead of
\* looking at the same block again
RECURSIVE merge_loop_Advance(_, _, _, _)
merge_loop_Advance(s, current, seen, fuel) ==
    IF fuel = 0 THEN [s EXCEPT !.st = "fuel"]
    ELSE IF current = NULL THEN s
    ELSE IF ~Valid(current) THEN Undef(s)
    ELSE LET nx == GetNext(s, current.v) IN
         IF nx = NULL THEN s
         ELSE IF ~Valid(nx) THEN Undef(s)
         ELSE IF nx.v \in seen \cup {current.v} THEN Hung(s)
         ELSE LET cf == GetFree(s, current.v)
                  nf == GetFree(s, nx.v) IN
              IF cf.k = "p" \/ (cf.v # 0 /\ nf.k = "p") THEN Undef(s)
              ELSE IF cf.v # 0 /\ nf.v # 0
              THEN LET cs == GetSize(s, current.v)
                       ns == GetSize(s, nx.v) IN
                   IF cs.k # "n" \/ ns.k # "n" THEN Undef(s)
                   ELSE LET s1 == SetSize(s, current.v, cs.v + ns.v + HEADER_SIZE)
                            s2 == SetNext(s1, current.v, GetNext(s1, nx.v))
                        IN  merge_loop_Advance(s2, GetNext(s2, current.v),
                                               seen \cup {current.v}, fuel - 1)
              ELSE merge_loop_Advance(s, nx, seen \cup {current.v}, fuel - 1)

merge_free_blocks_Advance(s) == merge_loop_Advance(s, s.fl, {}, MergeFuel)

merge_free_blocks(s) == merge_loop(s, s.fl, {}, MergeFuel)

\* HmmAlloc without the test for a request of zero bytes
HmmAlloc_NoZeroTest(s, n) ==
    LET r == find_free_block(s, ALIGN(n)) IN
    IF r.s.st # "ok" \/ r.block = NULL THEN [s |-> r.s, ret |-> NULL]
    ELSE [s |-> SetFree(r.s, r.block.v, 0), ret |-> Ptr(r.block.v + HEADER_SIZE)]

\* HmmAlloc: the state after the call and the pointer returned
HmmAlloc(s, n) ==
    IF n = 0 THEN [s |-> s, ret |-> NULL]
    ELSE LET r == find_free_block(s, ALIGN(n)) IN
         IF r.s.st # "ok" \/ r.block = NULL THEN [s |-> r.s, ret |-> NULL]
         ELSE [s |-> SetFree(r.s, r.block.v, 0), ret |-> Ptr(r.block.v + HEADER_SIZE)]

\* HmmFree without the test for a null pointer
HmmFree_NoNullTest(s, ptr) ==
    LET b == ptr.v - HEADER_SIZE
    IN  merge_free_blocks(add_to_free_list(SetFree(s, b, 1), b))

HmmFree(s, ptr) ==
    IF ptr = NULL THEN s
    ELSE LET b == ptr.v - HEADER_SIZE
         IN  merge_free_blocks(add_to_free_list(SetFree(s, b, 1), b))

\* ------------------------------------------------------------- the client

Cur == Machine(mem, free_list, program_break, status)

NoAllocs == [p \in {} |-> [n |-> 0, size |-> 0]]

\* the client records a pointer it was given (main, hmm_rand.c: allocations[i])
Hold(al, p, n, size) ==
    IF p \in DOMAIN al THEN al
    ELSE [q \in (DOMAIN al) \cup {p} |-> IF q = p THEN [n |-> n, size |-> size] ELSE al[q]]

Drop(al, p) == [q \in (DOMAIN al) \ {p} |-> al[q]]

Init ==
    /\ mem = NoMem
    /\ free_list = NULL
    /\ program_break = 0
    /\ allocations = NoAllocs
    /\ status = "ok"
    /\ last = [op |-> "none", arg |-> 0, ret |-> NULL, pre |-> Machine(NoMem, NULL, 0, "ok")]
    /\ calls = 0

Set(s) ==
    /\ mem' = s.mem
    /\ free_list' = s.fl
    /\ program_break' = s.brk
    /\ status' = s.st
    /\ calls' = calls + 1

\* a call is made while the client has made fewer than max calls
Alloc(n, max) ==
    /\ status = "ok"
    /\ calls < max
    /\ LET r == HmmAlloc(Cur, n) IN
       /\ Set(r.s)
       /\ allocations' = IF r.s.st = "ok" /\ r.ret # NULL
                         THEN Hold(allocations, r.ret.v, n, GetSize(r.s, r.ret.v - HEADER_SIZE))
                         ELSE allocations
       /\ last' = [op |-> "alloc", arg |-> n, ret |-> r.ret, pre |-> Cur]

Free(p, max) ==
    /\ status = "ok"
    /\ calls < max
    /\ p \in DOMAIN allocations
    /\ Set(HmmFree(Cur, Ptr(p)))
    /\ allocations' = Drop(allocations, p)
    /\ last' = [op |-> "free", arg |-> allocations[p].n, ret |-> Ptr(p), pre |-> Cur]

FreeNull(max) ==
    /\ status = "ok"
    /\ calls < max
    /\ Set(HmmFree(Cur, NULL))
    /\ UNCHANGED allocations
    /\ last' = [op |-> "free", arg |-> 0, ret |-> NULL, pre |-> Cur]

\* a client asking for sizes up to the arena
Next ==
    \/ \E n \in ReqSizes : Alloc(n, MaxCalls)
    \/ \E p \in DOMAIN allocations : Free(p, MaxCalls)
    \/ FreeNull(MaxCalls)

Spec == Init /\ [][Next]_vars

\* a longer run of a client asking for two sizes
NextDeep ==
    \/ \E n \in DeepSizes : Alloc(n, MaxDeepCalls)
    \/ \E p \in DOMAIN allocations : Free(p, MaxDeepCalls)
    \/ FreeNull(MaxDeepCalls)

SpecDeep == Init /\ [][NextDeep]_vars

\* a client that also asks for more than the arena holds
NextWide ==
    \/ \E n \in ReqSizes \cup WideSizes : Alloc(n, MaxWideCalls)
    \/ \E p \in DOMAIN allocations : Free(p, MaxWideCalls)
    \/ FreeNull(MaxWideCalls)

SpecWide == Init /\ [][NextWide]_vars

\* every pass of merge_free_blocks is followed to its end or to a proof that
\* it has none
MergeFuelSuffices == status # "fuel"

\* ------------------------------------------------- what the claims speak of

\* the blocks reachable from free_list by following next links
RECURSIVE chain(_, _, _)
chain(m, p, seen) ==
    IF ~Valid(p) \/ p.v \in seen THEN seen
    ELSE chain(m, Rd(m, p.v + OFF_NEXT), seen \cup {p.v})

FreeBlocks == chain(mem, free_list, {})

\* following next links from free_list comes back to a block already passed
RECURSIVE cyclic(_, _, _)
cyclic(m, p, seen) ==
    IF ~Valid(p) THEN FALSE
    ELSE IF p.v \in seen THEN TRUE
    ELSE cyclic(m, Rd(m, p.v + OFF_NEXT), seen \cup {p.v})

\* the headers of the blocks the client holds
LiveBlocks == {p - HEADER_SIZE : p \in DOMAIN allocations}

\* the int field free of the header at b in memory m holds f
FlagIs(m, b, f) == Rd(m, b + OFF_FREE).k # "p" /\ Rd(m, b + OFF_FREE).v = f

\* the size field of the header at b, when it holds a size below 2^63
HasSize(b) == Rd(mem, b).k = "n" /\ Rd(mem, b).v >= 0

SizeOf(b) == Rd(mem, b).v

\* the byte ranges [lo1, hi1) and [lo2, hi2) share no byte
Apart(lo1, hi1, lo2, hi2) == hi1 <= lo2 \/ hi2 <= lo1

\* the last call was an HmmAlloc that returned a block
Granted == status = "ok" /\ last.op = "alloc" /\ last.ret # NULL

\* C1: any two distinct live blocks occupy disjoint byte ranges
\* [header, header + HEADER_SIZE + size).
C1_NoOverlap ==
    status = "ok" =>
        \A a, b \in LiveBlocks :
            a # b => /\ HasSize(a) /\ HasSize(b)
                     /\ Apart(a, a + HEADER_SIZE + SizeOf(a), b, b + HEADER_SIZE + SizeOf(b))

\* C2: the size bytes after the header of any block, live or on the free list,
\* hold no header and no payload byte of another block.
C2_BlockExtent ==
    status = "ok" =>
        \A a, b \in LiveBlocks \cup FreeBlocks :
            a # b => /\ HasSize(a) /\ HasSize(b)
                     /\ Apart(a + HEADER_SIZE, a + HEADER_SIZE + SizeOf(a),
                              b, b + HEADER_SIZE + SizeOf(b))

\* C3: a block returned by HmmAlloc lies inside the arena carved so far:
\* heap <= header, payload end <= program_break <= heap + HEAP_SIZE.
C3_InsideArena ==
    Granted =>
        LET b == last.ret.v - HEADER_SIZE IN
        /\ 0 <= b
        /\ HasSize(b)
        /\ last.ret.v + SizeOf(b) <= program_break
        /\ program_break <= HEAP_SIZE

\* C4: program_break stays within [heap, heap + HEAP_SIZE] and no call
\* decreases it.
C4_BreakInvariant ==
    status = "ok" =>
        /\ 0 <= program_break
        /\ program_break <= HEAP_SIZE
        /\ last.pre.brk <= program_break

\* C5: a block the client holds is not reachable from free_list.
C5_LiveNotOnFreeList == status = "ok" => LiveBlocks \cap FreeBlocks = {}

\* C6: while the client holds a block, its header keeps the size set when it
\* was granted and free == 0.
C6_LiveHeaderKept ==
    status = "ok" =>
        \A p \in DOMAIN allocations :
            /\ Rd(mem, p - HEADER_SIZE) = allocations[p].size
            /\ FlagIs(mem, p - HEADER_SIZE, 0)

\* C7: every call of a client that frees only what it holds returns, and the
\* free list never contains a cycle.
C7_Terminates == status # "hung" /\ ~cyclic(mem, free_list, {})

\* the larger of two size_t values
UMax(a, b) == IF ULt(a, b) THEN b ELSE a

\* no block on the free list of s has size >= size
NoFit(s, size) ==
    \A b \in chain(s.mem, s.fl, {}) :
        Rd(s.mem, b).k = "n" /\ ULt(Rd(s.mem, b).v, size)

\* the chunk a request of size bytes needs does not fit above the break of s
\* (a chunk of 2^63 bytes or more fits nowhere)
NoRoom(s, size) ==
    LET chunk == UMax(size + HEADER_SIZE, MIN_CHUNK)
    IN  chunk < 0 \/ s.brk + chunk > HEAP_SIZE

\* the last call was HmmAlloc(n) with n > 0 and it returned
AllocReturned == status = "ok" /\ last.op = "alloc" /\ last.arg # 0

\* C8: HmmAlloc(n), n > 0, returns NULL exactly when no free-list block has
\* size >= ALIGN(n) and the chunk does not fit above program_break; a failed
\* call leaves program_break, free_list and the heap as they were.
C8_OutOfMemory ==
    AllocReturned =>
        /\ last.ret = NULL <=> (NoFit(last.pre, ALIGN(last.arg)) /\ NoRoom(last.pre, ALIGN(last.arg)))
        /\ last.ret = NULL =>
              /\ mem = last.pre.mem
              /\ free_list = last.pre.fl
              /\ program_break = last.pre.brk

\* the last call was HmmFree(p) of a held pointer and it returned
Released == status = "ok" /\ last.op = "free" /\ last.ret # NULL

\* C9: after HmmFree(p) of a block granted for n bytes the free list holds a
\* block of size >= ALIGN(n), and HmmAlloc(n) called next returns a block
\* without moving program_break.
C9_RoundTrip ==
    Released =>
        /\ \E b \in FreeBlocks : Rd(mem, b).k = "n" /\ ~ULt(SizeOf(b), ALIGN(last.arg))
        /\ LET r == HmmAlloc(Cur, last.arg) IN
           /\ r.s.st = "ok"
           /\ r.ret # NULL
           /\ r.s.brk = program_break

\* C10: HmmAlloc(n) returns NULL for every n > HEAP_SIZE.
C10_TooLargeFails ==
    (AllocReturned /\ ULt(HEAP_SIZE, last.arg)) => last.ret = NULL

\* C11: a pointer returned by HmmAlloc(n) is the address right after a header
\* with free == 0 and a size of at least n rounded up to a multiple of the
\* word size (never less than n itself).
C11_GrantedCapacity ==
    Granted =>
        LET b == last.ret.v - HEADER_SIZE IN
        /\ FlagIs(mem, b, 0)
        /\ Rd(mem, b).k = "n"
        /\ ~ULt(SizeOf(b), ALIGN(last.arg))
        /\ ~ULt(SizeOf(b), last.arg)

\* the state is the one the last call started from
Untouched == Cur = last.pre

\* C12: HmmAlloc(0) returns NULL and leaves program_break, free_list and
\* every block header as they were.
C12_ZeroRequest ==
    (last.op = "alloc" /\ last.arg = 0) => (last.ret = NULL /\ Untouched)

\* HmmAlloc(0) was called with a free block on the list and a block held
C12_Witness ==
    /\ last.op = "alloc" /\ last.arg = 0 /\ status = "ok"
    /\ free_list # NULL /\ allocations # NoAllocs

\* C13: HmmFree(NULL) changes nothing: the free list, every block header and
\* program_break stay as they were, so the merge pass has not run.
C13_NullFree ==
    (last.op = "free" /\ last.ret = NULL) => Untouched

\* HmmFree(NULL) was called in a state that a merge pass would have changed
C13_Witness ==
    /\ last.op = "free" /\ last.ret = NULL /\ status = "ok"
    /\ merge_free_blocks(last.pre) # last.pre

\* C14: a second run of merge_free_blocks right after a first run changes
\* nothing, whether the first run is the one inside HmmFree or one started
\* from the free list the client sees between calls.
C14_MergeIdempotent ==
    status = "ok" =>
        LET once == merge_free_blocks(Cur) IN
        /\ Released => once = Cur
        /\ once.st = "ok" => merge_free_blocks(once) = once

\* HmmFree has just merged the freed block and a list of two or more blocks
\* into one
C14_Witness ==
    /\ Released
    /\ Cardinality(chain(last.pre.mem, last.pre.fl, {})) >= 2
    /\ Cardinality(FreeBlocks) = 1

\* the blocks of the free list that starts at p in memory m, in list order
RECURSIVE listSeq(_, _, _)
listSeq(m, p, seen) ==
    IF ~Valid(p) \/ p.v \in seen THEN <<>>
    ELSE <<p.v>> \o listSeq(m, Rd(m, p.v + OFF_NEXT), seen \cup {p.v})

\* the sequence q without its i-th element
Without(q, i) == [k \in 1..(Len(q) - 1) |-> IF k < i THEN q[k] ELSE q[k + 1]]

\* the elements of q that belong to S, in the order of q
RECURSIVE Only(_, _)
Only(q, S) ==
    IF q = <<>> THEN <<>>
    ELSE IF Head(q) \in S THEN <<Head(q)>> \o Only(Tail(q), S)
    ELSE Only(Tail(q), S)

\* positions in the list of state s of blocks whose size is at least size
Fits(s, size) ==
    LET q == listSeq(s.mem, s.fl, {}) IN
    {i \in 1..Len(q) : Rd(s.mem, q[i]).k = "n" /\ ~ULt(Rd(s.mem, q[i]).v, size)}

Min(S) == CHOOSE i \in S : \A j \in S : i <= j

\* C15: when some block of the free list has size >= ALIGN(n), HmmAlloc(n)
\* returns the first such block in list order, unlinks that block only,
\* keeps the order of the other list blocks and leaves program_break alone;
\* program_break moves only when no list block is large enough.
C15_FirstFit ==
    AllocReturned =>
        LET q == listSeq(last.pre.mem, last.pre.fl, {})
            fits == Fits(last.pre, ALIGN(last.arg)) IN
        IF fits = {} THEN TRUE
        ELSE LET i == Min(fits) IN
             /\ last.ret = Ptr(q[i] + HEADER_SIZE)
             /\ program_break = last.pre.brk
             /\ q[i] \notin FreeBlocks
             /\ Only(listSeq(mem, free_list, {}), {q[k] : k \in 1..Len(q)}) = Without(q, i)

\* the last call was an HmmAlloc that moved program_break
Grew == AllocReturned /\ program_break # last.pre.brk

\* C16: an HmmAlloc(n) that grows the arena moves program_break by exactly
\* chunk = max(ALIGN(n) + HEADER_SIZE, 16 KiB), returns the block whose header
\* sits at the old break, with free == 0 and the chunk's payload
\* (chunk - HEADER_SIZE, shared with the split remainder when there is one),
\* and the free list gains the split remainder at most, never the block.
C16_GrowthPolicy ==
    Grew =>
        LET r == ALIGN(last.arg)
            chunk == UMax(r + HEADER_SIZE, MIN_CHUNK)
            b == last.pre.brk
            rem == b + HEADER_SIZE + r
            before == listSeq(last.pre.mem, last.pre.fl, {})
            after == listSeq(mem, free_list, {}) IN
        /\ program_break = last.pre.brk + chunk
        /\ last.ret = Ptr(b + HEADER_SIZE)
        /\ FlagIs(mem, b, 0)
        /\ b \notin FreeBlocks
        /\ \/ Rd(mem, b) = Num(chunk - HEADER_SIZE) /\ after = before
           \/ /\ Rd(mem, b) = Num(r)
              /\ Rd(mem, rem) = Num(chunk - HEADER_SIZE - r - HEADER_SIZE)
              /\ after = <<rem>> \o before

C18_FreeFlags ==
    status = "ok" =>
        /\ \A b \in FreeBlocks : FlagIs(mem, b, 1)
        /\ \A b \in LiveBlocks : FlagIs(mem, b, 0)

\* size + HEADER_SIZE summed over the blocks S, sizes read in memory m
RECURSIVE Footprint(_, _)
Footprint(m, S) ==
    IF S = {} THEN 0
    ELSE LET x == CHOOSE y \in S : TRUE
         IN  Rd(m, x).v + HEADER_SIZE + Footprint(m, S \ {x})

\* C19: after an HmmFree(p) with p non-null that returns, the free list holds
\* exactly one block, the block just freed, and its size is its size before
\* the call plus size + HEADER_SIZE of every block the list held before.
C19_FreeCollapses ==
    Released =>
        LET b == last.ret.v - HEADER_SIZE
            before == chain(last.pre.mem, last.pre.fl, {}) IN
        /\ free_list = Ptr(b)
        /\ Rd(mem, b + OFF_NEXT) = NULL
        /\ Rd(mem, b) = Num(Rd(last.pre.mem, b).v + Footprint(last.pre.mem, before))

====
